---- MODULE Spec2Model ----
(***************************************************************************)
(* The Search integration of Home Assistant: Searcher.async_search, the    *)
(* worklist search over devices, entities, areas, config entries, scenes,  *)
(* groups, scripts and automations                                         *)
(* (homeassistant/components/search/__init__.py).                          *)
(*                                                                         *)
(* One Searcher instance runs one search.  The registries and the scene    *)
(* and group configuration are read-only inputs, fixed in Init.            *)
(***************************************************************************)
EXTENDS Naturals, FiniteSets, Sequences, TLC

VARIABLES
    device_reg,   \* device registry: device id -> [area_id, config_entries]
    entity_reg,   \* entity registry: entity id -> [device_id, config_entry_id]
    scene_states, \* hass: scene entity id -> entity ids of its stored states
    group_states, \* hass: group entity id -> member entity ids
    results,      \* Searcher.results (defaultdict(set)): kind -> set of ids
    to_resolve,   \* Searcher._to_resolve: set of <<kind, id>>
    item_type,    \* argument of async_search
    item_id,      \* argument of async_search
    pc,           \* position of async_search
    ret,          \* the mapping async_search returned
    visited       \* history: the pairs the while loop has popped

vars == <<device_reg, entity_reg, scene_states, group_states,
          results, to_resolve, item_type, item_id, pc, ret, visited>>

graph == <<device_reg, entity_reg, scene_states, group_states>>

-----------------------------------------------------------------------------
(* Bounds and universes of ids *)

\* The most registry entries and scene/group memberships the graph holds.
MaxLinks == 2

\* The same, for the graphs of LiveSpec.
MaxLiveLinks == 1

None == "None"

AreaIds == {"a1"}
DeviceIds == {"d1", "d2"}
ConfigEntryIds == {"c1"}
SceneIds == {"scene.s1"}
GroupIds == {"group.g1"}
EntityIds == {"light.a", "light.b", "scene.s1", "group.g1",
              "script.foo", "automation.m1"}

\* vol.In(...) of the websocket command: the eight supported item types.
ItemTypes == {"area", "automation", "config_entry", "device",
              "entity", "group", "scene", "script"}

\* The item types a client may put in a message: the supported ones and one
\* that is not.
MsgItemTypes == ItemTypes \cup {"zone"}

\* A faulty variant of the schema: any item type passes.
valid_item_type_any(type) == TRUE

\* vol.Required("item_type"): vol.In(...)
valid_item_type(type) == type \in ItemTypes

\* The ids a caller searches for under each item type: item_id is any str, and
\* the ids of scenes, groups, scripts and automations are entity ids.
ItemIds(type) ==
    CASE type = "area" -> AreaIds
      [] type = "device" -> DeviceIds
      [] type = "config_entry" -> ConfigEntryIds
      [] OTHER -> EntityIds

DeviceEntries == [area_id : AreaIds \cup {None},
                  config_entries : SUBSET ConfigEntryIds]
EntityEntries == [device_id : DeviceIds \cup {None},
                  config_entry_id : ConfigEntryIds \cup {None}]

\* The partial functions from n elements of S to T.
Registries(S, T, n) ==
    UNION {[D -> T] : D \in {D \in SUBSET S : Cardinality(D) = n}}

\* The membership maps of the owners O with n memberships in all; no scene
\* or group lists itself.
Memberships(O, n) ==
    {m \in [O -> SUBSET EntityIds] :
        /\ Cardinality({p \in O \X EntityIds : p[2] \in m[p[1]]}) = n
        /\ \A o \in O : o \notin m[o]}

-----------------------------------------------------------------------------
(* The collaborators' read-only queries *)

\* homeassistant.core.split_entity_id: entity_id.split(".", 1)
split_entity_id(entity_id) ==
    CASE entity_id = "light.a" -> <<"light", "a">>
      [] entity_id = "light.b" -> <<"light", "b">>
      [] entity_id = "scene.s1" -> <<"scene", "s1">>
      [] entity_id = "group.g1" -> <<"group", "g1">>
      [] entity_id = "script.foo" -> <<"script", "foo">>
      [] entity_id = "automation.m1" -> <<"automation", "m1">>
      [] OTHER -> <<entity_id>>

\* device_registry.async_entries_for_area
devices_in_area(area_id) ==
    {d \in DOMAIN device_reg : device_reg[d].area_id = area_id}

\* entity_registry.async_entries_for_device
entities_of_device(device_id) ==
    {e \in DOMAIN entity_reg : entity_reg[e].device_id = device_id}

\* scene.scenes_with_entity
scenes_with_entity(entity_id) ==
    {s \in DOMAIN scene_states : entity_id \in scene_states[s]}

\* group.groups_with_entity
groups_with_entity(entity_id) ==
    {g \in DOMAIN group_states : entity_id \in group_states[g]}

\* group.get_entity_ids
entities_in_group(group_entity_id) ==
    IF group_entity_id \in DOMAIN group_states
    THEN group_states[group_entity_id] ELSE {}

\* scene.entities_in_scene
entities_in_scene(scene_entity_id) ==
    IF scene_entity_id \in DOMAIN scene_states
    THEN scene_states[scene_entity_id] ELSE {}

\* device_registry.async_entries_for_config_entry
devices_for_config_entry(config_entry_id) ==
    {d \in DOMAIN device_reg : config_entry_id \in device_reg[d].config_entries}

\* entity_registry.async_entries_for_config_entry
entities_for_config_entry(config_entry_id) ==
    {e \in DOMAIN entity_reg : entity_reg[e].config_entry_id = config_entry_id}

-----------------------------------------------------------------------------
(* Searcher *)

\* Faulty variants of DONT_RESOLVE: one type forgotten.
DONT_RESOLVE_no_area == {"scene", "automation", "script", "group", "config_entry"}

DONT_RESOLVE_no_scene == {"automation", "script", "group", "config_entry", "area"}

\* These types won't be further explored.
DONT_RESOLVE == {"scene", "automation", "script", "group", "config_entry", "area"}

\* The domains of _resolve_entity's last test.
EntityDomains == {"scene", "automation", "script", "group"}

\* defaultdict(set): reading a missing key yields the empty set ...
Get(res, key) == IF key \in DOMAIN res THEN res[key] ELSE {}

\* ... and leaves the key in the dict; storing sets it.
Put(res, key, val) ==
    [k \in DOMAIN res \cup {key} |-> IF k = key THEN val ELSE res[k]]

\* A faulty variant of _add_or_resolve: no test of the results before adding.
add_or_resolve_unchecked(st, type, id) ==
    [results |-> Put(st.results, type, Get(st.results, type) \cup {id}),
     to_resolve |-> IF type \notin DONT_RESOLVE
                    THEN st.to_resolve \cup {<<type, id>>}
                    ELSE st.to_resolve]

\* A faulty variant of _add_or_resolve: the bucket is set to the new id.
add_or_resolve_replacing(st, type, id) ==
    IF id \in Get(st.results, type)
    THEN [st EXCEPT !.results = Put(@, type, Get(@, type))]
    ELSE [results |-> Put(st.results, type, {id}),
          to_resolve |-> IF type \notin DONT_RESOLVE
                         THEN st.to_resolve \cup {<<type, id>>}
                         ELSE st.to_resolve]

\* A faulty variant of _add_or_resolve: the id is not added to the results.
add_or_resolve_not_recorded(st, type, id) ==
    IF id \in Get(st.results, type)
    THEN [st EXCEPT !.results = Put(@, type, Get(@, type))]
    ELSE [results |-> Put(st.results, type, Get(st.results, type)),
          to_resolve |-> IF type \notin DONT_RESOLVE
                         THEN st.to_resolve \cup {<<type, id>>}
                         ELSE st.to_resolve]

\* Searcher._add_or_resolve on the searcher state st = [results, to_resolve].
add_or_resolve(st, type, id) ==
    IF id \in Get(st.results, type)
    THEN [st EXCEPT !.results = Put(@, type, Get(@, type))]
    ELSE [results |-> Put(st.results, type, Get(st.results, type) \cup {id}),
          to_resolve |-> IF type \notin DONT_RESOLVE
                         THEN st.to_resolve \cup {<<type, id>>}
                         ELSE st.to_resolve]

\* "for x in ids: self._add_or_resolve(type, x)"
RECURSIVE add_each(_, _, _)
add_each(st, type, ids) ==
    IF ids = {} THEN st
    ELSE LET x == CHOOSE x \in ids : TRUE
         IN add_each(add_or_resolve(st, type, x), type, ids \ {x})

resolve_area(st, area_id) ==
    add_each(st, "device", devices_in_area(area_id))

\* A faulty variant of _resolve_device: the device's area is not added.
resolve_device_no_area(st, device_id) ==
    LET s1 == IF device_id \in DOMAIN device_reg
              THEN add_each(st, "config_entry", device_reg[device_id].config_entries)
              ELSE st
    IN add_each(s1, "entity", entities_of_device(device_id))

resolve_device(st, device_id) ==
    LET s1 == IF device_id \in DOMAIN device_reg
              THEN LET device_entry == device_reg[device_id]
                       a == IF device_entry.area_id # None
                            THEN add_or_resolve(st, "area", device_entry.area_id)
                            ELSE st
                   IN add_each(a, "config_entry", device_entry.config_entries)
              ELSE st
    IN add_each(s1, "entity", entities_of_device(device_id))

\* A faulty variant of _resolve_entity: the id is not added under its domain.
resolve_entity_no_domain(st, entity_id) ==
    LET s1 == add_each(st, "entity", scenes_with_entity(entity_id))
        s2 == add_each(s1, "entity", groups_with_entity(entity_id))
    IN IF entity_id \in DOMAIN entity_reg
       THEN LET entity_entry == entity_reg[entity_id]
                d == IF entity_entry.device_id # None
                     THEN add_or_resolve(s2, "device", entity_entry.device_id)
                     ELSE s2
            IN IF entity_entry.config_entry_id # None
               THEN add_or_resolve(d, "config_entry", entity_entry.config_entry_id)
               ELSE d
       ELSE s2

\* A faulty variant of _resolve_entity: the groups of the entity are not added.
resolve_entity_no_groups(st, entity_id) ==
    LET s1 == add_each(st, "entity", scenes_with_entity(entity_id))
        s3 == IF entity_id \in DOMAIN entity_reg
              THEN LET entity_entry == entity_reg[entity_id]
                       d == IF entity_entry.device_id # None
                            THEN add_or_resolve(s1, "device", entity_entry.device_id)
                            ELSE s1
                   IN IF entity_entry.config_entry_id # None
                      THEN add_or_resolve(d, "config_entry",
                                          entity_entry.config_entry_id)
                      ELSE d
              ELSE s1
        domain == split_entity_id(entity_id)[1]
    IN IF domain \in EntityDomains
       THEN add_or_resolve(s3, domain, entity_id)
       ELSE s3

resolve_entity(st, entity_id) ==
    LET s1 == add_each(st, "entity", scenes_with_entity(entity_id))
        s2 == add_each(s1, "entity", groups_with_entity(entity_id))
        s3 == IF entity_id \in DOMAIN entity_reg
              THEN LET entity_entry == entity_reg[entity_id]
                       d == IF entity_entry.device_id # None
                            THEN add_or_resolve(s2, "device", entity_entry.device_id)
                            ELSE s2
                   IN IF entity_entry.config_entry_id # None
                      THEN add_or_resolve(d, "config_entry",
                                          entity_entry.config_entry_id)
                      ELSE d
              ELSE s2
        domain == split_entity_id(entity_id)[1]
    IN IF domain \in EntityDomains
       THEN add_or_resolve(s3, domain, entity_id)
       ELSE s3

resolve_automation(st, automation_entity_id) == st

resolve_script(st, script_entity_id) == st

resolve_group(st, group_entity_id) ==
    add_each(st, "entity", entities_in_group(group_entity_id))

resolve_scene(st, scene_entity_id) ==
    add_each(st, "entity", entities_in_scene(scene_entity_id))

resolve_config_entry(st, config_entry_id) ==
    add_each(add_each(st, "device", devices_for_config_entry(config_entry_id)),
             "entity", entities_for_config_entry(config_entry_id))

\* getattr(self, f"_resolve_{search_type}")(search_id)
resolve(st, search_type, search_id) ==
    CASE search_type = "area" -> resolve_area(st, search_id)
      [] search_type = "device" -> resolve_device(st, search_id)
      [] search_type = "entity" -> resolve_entity(st, search_id)
      [] search_type = "automation" -> resolve_automation(st, search_id)
      [] search_type = "script" -> resolve_script(st, search_id)
      [] search_type = "group" -> resolve_group(st, search_id)
      [] search_type = "scene" -> resolve_scene(st, search_id)
      [] search_type = "config_entry" -> resolve_config_entry(st, search_id)

\* A faulty variant of the pop: the other pending pairs are dropped with it.
popped_all(pending, pair) == {}

\* self._to_resolve after pop() returned pair
popped(pending, pair) == pending \ {pair}

\* "while self._to_resolve": the loop goes on
pending_left(pending) == pending # {}

\* A faulty variant of the return: the empty buckets are kept.
non_empty_all(res) == res

\* "return {key: val for key, val in self.results.items() if val}"
non_empty(res) ==
    [k \in {k \in DOMAIN res : res[k] # {}} |-> res[k]]

\* async_search, lines 82-84, popping in one fixed order until nothing is left.
RECURSIVE drain(_)
drain(st) ==
    IF ~pending_left(st.to_resolve) THEN st
    ELSE LET pair == CHOOSE p \in st.to_resolve : TRUE
         IN drain(resolve([results |-> st.results,
                           to_resolve |-> popped(st.to_resolve, pair)],
                          pair[1], pair[2]))

-----------------------------------------------------------------------------
(* The state machine *)

EmptyDict == [k \in {} |-> {}]

\* A fresh Searcher over a graph of at most n links.
Fresh(n) ==
    /\ \E nd, ne, ns, ng \in 0..n :
          /\ nd + ne + ns + ng <= n
          /\ device_reg \in Registries(DeviceIds, DeviceEntries, nd)
          /\ entity_reg \in Registries(EntityIds, EntityEntries, ne)
          /\ scene_states \in Memberships(SceneIds, ns)
          /\ group_states \in Memberships(GroupIds, ng)
    /\ results = EmptyDict
    /\ to_resolve = {}
    /\ item_type = None
    /\ item_id = None
    /\ pc = "start"
    /\ ret = EmptyDict
    /\ visited = {}

Init == Fresh(MaxLinks)

LiveInit == Fresh(MaxLiveLinks)

\* A message whose item_type fails the schema is answered with an error:
\* websocket_search_related is not called and no Searcher runs.
Reject ==
    /\ pc = "start"
    /\ \E type \in MsgItemTypes : \E id \in ItemIds(type) :
          /\ ~valid_item_type(type)
          /\ item_type' = type
          /\ item_id' = id
    /\ pc' = "rejected"
    /\ UNCHANGED <<graph, results, to_resolve, ret, visited>>

\* websocket_search_related on a valid message, then async_search, lines
\* 79-80: seed the results and the worklist.
Seed ==
    /\ pc = "start"
    /\ \E type \in MsgItemTypes : \E id \in ItemIds(type) :
          /\ valid_item_type(type)
          /\ item_type' = type
          /\ item_id' = id
          /\ results' = Put(results, type, Get(results, type) \cup {id})
          /\ to_resolve' = to_resolve \cup {<<type, id>>}
    /\ pc' = "drain"
    /\ UNCHANGED <<graph, ret, visited>>

\* One turn of the while loop popping a pair of the given type.
Turn(search_type) ==
    /\ pc = "drain"
    /\ pending_left(to_resolve)
    /\ \E pair \in to_resolve :
          /\ pair[1] = search_type
          /\ LET st == resolve([results |-> results,
                                to_resolve |-> popped(to_resolve, pair)],
                               pair[1], pair[2])
             IN /\ results' = st.results
                /\ to_resolve' = st.to_resolve
          /\ visited' = visited \cup {pair}
    /\ UNCHANGED <<graph, item_type, item_id, pc, ret>>

ResolveArea ==
    /\ pc = "drain"
    /\ Turn("area")
ResolveDevice ==
    /\ pc = "drain"
    /\ Turn("device")
ResolveEntity ==
    /\ pc = "drain"
    /\ Turn("entity")
ResolveAutomation ==
    /\ pc = "drain"
    /\ Turn("automation")
ResolveScript ==
    /\ pc = "drain"
    /\ Turn("script")
ResolveGroup ==
    /\ pc = "drain"
    /\ Turn("group")
ResolveScene ==
    /\ pc = "drain"
    /\ Turn("scene")
ResolveConfigEntry ==
    /\ pc = "drain"
    /\ Turn("config_entry")

\* async_search, lines 88-91: the four subtractions from results["entity"].
subtract(res, key) == Put(Put(res, key, Get(res, key)), "entity",
                          Get(res, "entity") \ Get(res, key))

\* Faulty variants of the clean-up: one subtraction forgotten.
clean_up_no_group(res) ==
    subtract(subtract(subtract(res, "script"), "scene"), "automation")

clean_up_no_scene(res) ==
    subtract(subtract(subtract(res, "script"), "automation"), "group")

clean_up(res) ==
    subtract(subtract(subtract(subtract(res, "script"), "scene"),
                      "automation"), "group")

Cleanup ==
    /\ pc = "drain"
    /\ ~pending_left(to_resolve)
    /\ results' = clean_up(results)
    /\ pc' = "remove"
    /\ UNCHANGED <<graph, to_resolve, item_type, item_id, ret, visited>>

\* A faulty variant of the removal: the entry stays in its bucket.
remove_entry_skipped(res, type, id) == Put(res, type, Get(res, type))

\* async_search, line 94: set.remove raises KeyError for a missing element.
remove_entry(res, type, id) == Put(res, type, Get(res, type) \ {id})

RemoveEntry ==
    /\ pc = "remove"
    /\ \/ /\ item_id \in Get(results, item_type)
          /\ results' = remove_entry(results, item_type, item_id)
          /\ pc' = "filter"
       \/ /\ item_id \notin Get(results, item_type)
          /\ results' = Put(results, item_type, Get(results, item_type))
          /\ pc' = "raised"
    /\ UNCHANGED <<graph, to_resolve, item_type, item_id, ret, visited>>

\* async_search, line 97: return the non-empty buckets.
Return ==
    /\ pc = "filter"
    /\ ret' = non_empty(results)
    /\ pc' = "returned"
    /\ UNCHANGED <<graph, results, to_resolve, item_type, item_id, visited>>

\* async_search as a whole, popping in the fixed order of drain: whether it
\* raised, and what it returned.
search_outcome(type, id) ==
    LET drained == drain([results |-> Put(EmptyDict, type, {id}),
                          to_resolve |-> {<<type, id>>}])
        cleaned == clean_up(drained.results)
    IN IF id \in Get(cleaned, type)
       THEN [raised |-> FALSE, ret |-> non_empty(remove_entry(cleaned, type, id))]
       ELSE [raised |-> TRUE, ret |-> EmptyDict]

Next ==
    \/ Reject
    \/ Seed
    \/ ResolveArea
    \/ ResolveDevice
    \/ ResolveEntity
    \/ ResolveAutomation
    \/ ResolveScript
    \/ ResolveGroup
    \/ ResolveScene
    \/ ResolveConfigEntry
    \/ Cleanup
    \/ RemoveEntry
    \/ Return

Spec == Init /\ [][Next]_vars

\* The shape of the state.
TypeOK ==
    /\ DOMAIN device_reg \subseteq DeviceIds
    /\ \A d \in DOMAIN device_reg : device_reg[d] \in DeviceEntries
    /\ DOMAIN entity_reg \subseteq EntityIds
    /\ \A e \in DOMAIN entity_reg : entity_reg[e] \in EntityEntries
    /\ scene_states \in [SceneIds -> SUBSET EntityIds]
    /\ group_states \in [GroupIds -> SUBSET EntityIds]
    /\ DOMAIN results \subseteq ItemTypes
    /\ \A k \in DOMAIN results : results[k] \subseteq ItemIds(k)
    /\ to_resolve \subseteq {p \in ItemTypes \X UNION {ItemIds(k) : k \in ItemTypes} : p[2] \in ItemIds(p[1])}
    /\ item_type \in MsgItemTypes \cup {None}
    /\ item_id \in UNION {ItemIds(k) : k \in ItemTypes} \cup {None}
    /\ pc \in {"start", "rejected", "drain", "remove", "filter", "returned", "raised"}
    /\ DOMAIN ret \subseteq ItemTypes
    /\ visited \subseteq ItemTypes \X UNION {ItemIds(k) : k \in ItemTypes}
    /\ \A k \in DOMAIN ret : ret[k] \subseteq ItemIds(k)

\* async_search is one synchronous call: it keeps running until it ends.
LiveSpec == LiveInit /\ [][Next]_vars /\ WF_vars(Next)

-----------------------------------------------------------------------------
(* Properties of async_search *)

Finished == pc \in {"returned", "raised"}

\* C1: async_search never raises: when the entry-point removal runs, item_id
\* is still in the bucket of item_type, and the search runs to its return.
C1_RunsToCompletion ==
    /\ pc = "remove" => item_id \in Get(results, item_type)
    /\ pc # "raised"

\* C2: the returned mapping never holds item_id in the bucket of item_type.
C2_NoSelfInclusion ==
    pc = "returned" => item_id \notin Get(ret, item_type)

\* A search returned whose entry bucket survives with other ids in it.
C2_Witness ==
    /\ pc = "returned"
    /\ item_type \in DOMAIN ret

\* C3: a search for (entity, E) with E a scene, automation, script or group
\* id returns a mapping, and E is not in the bucket of its specific kind.
C3_SpecificKindEntry ==
    (/\ Finished
     /\ item_type = "entity"
     /\ split_entity_id(item_id)[1] \in EntityDomains)
    => /\ pc = "returned"
       /\ item_id \notin Get(ret, split_entity_id(item_id)[1])

\* C4: once seeded, the search ends with its worklist empty, whatever the
\* graph and its cycles.
C4_Termination ==
    (pc = "drain") ~> (Finished /\ to_resolve = {})

\* A search from an area ended although its device points back at the area,
\* or one from an entity ended although its scene or device points back at it.
C4_Witness ==
    /\ Finished
    /\ \/ /\ item_type = "area"
          /\ \E d \in Get(ret, "device") : device_reg[d].area_id = item_id
       \/ /\ item_type = "entity"
          /\ \E s \in Get(ret, "scene") : item_id \in entities_in_scene(s)
       \/ /\ item_type = "entity"
          /\ \E d \in Get(ret, "device") : item_id \in entities_of_device(d)

\* C5: in a returned mapping the entity bucket shares no id with the scene,
\* script, automation and group buckets.
C5_EntityDisjoint ==
    pc = "returned" =>
        \A k \in EntityDomains : Get(ret, "entity") \cap Get(ret, k) = {}

\* A search from a device returned a group it found as an entity, beside
\* another entity.
C5_Witness ==
    /\ pc = "returned"
    /\ item_type = "device"
    /\ Get(ret, "group") # {}
    /\ Get(ret, "entity") # {}

\* The links of the graph: <<what the link is, one end, the other end>>.
links ==
    LET all == {<<"device", e, entity_reg[e].device_id>> : e \in DOMAIN entity_reg}
               \cup {<<"config_entry", e, entity_reg[e].config_entry_id>> :
                        e \in DOMAIN entity_reg}
               \cup {<<"area", d, device_reg[d].area_id>> : d \in DOMAIN device_reg}
               \cup UNION {{<<"config_entry", d, c>> :
                              c \in device_reg[d].config_entries} :
                           d \in DOMAIN device_reg}
               \cup UNION {{<<"scene", o, m>> : m \in scene_states[o]} :
                           o \in SceneIds}
               \cup UNION {{<<"group", o, m>> : m \in group_states[o]} :
                           o \in GroupIds}
    IN {l \in all : l[3] # None}

\* The ids that chains of the links L join to the ids R.
RECURSIVE joined(_, _)
joined(R, L) ==
    LET more == R \cup UNION {{l[2], l[3]} : l \in {l \in L : {l[2], l[3]} \cap R # {}}}
    IN IF more = R THEN R ELSE joined(more, L)

\* E, a member of scene S, has nothing else to do with X: without the link
\* from S to E no chain of links joins them.
otherwise_unrelated(E, X, S) ==
    E \notin joined({X}, links \ {<<"scene", S, E>>})

\* C6: a search for the entity X of scene S returns S under scene and holds
\* the member E of S in no bucket, when E is otherwise unrelated to X.
C6_SceneNotExpanded ==
    \A S \in SceneIds, E \in EntityIds :
        (/\ Finished
         /\ item_type = "entity"
         /\ item_id \in entities_in_scene(S)
         /\ E \in entities_in_scene(S)
         /\ otherwise_unrelated(E, item_id, S))
        => /\ pc = "returned"
           /\ S \in Get(ret, "scene")
           /\ \A k \in ItemTypes : E \notin Get(ret, k)

\* C6 holds of every entry X outside the scene, automation, script and
\* group domains, for which the removal of the entry does not raise.
C6_SceneNotExpandedOtherDomains ==
    \A S \in SceneIds, E \in EntityIds :
        (/\ Finished
         /\ item_type = "entity"
         /\ split_entity_id(item_id)[1] \notin EntityDomains
         /\ item_id \in entities_in_scene(S)
         /\ E \in entities_in_scene(S)
         /\ otherwise_unrelated(E, item_id, S))
        => /\ pc = "returned"
           /\ S \in Get(ret, "scene")
           /\ \A k \in ItemTypes : E \notin Get(ret, k)

\* Every lookup the rule of the type makes for the id finds nothing.
dangling(type, id) ==
    CASE type = "area" -> devices_in_area(id) = {}
      [] type = "device" ->
            id \notin DOMAIN device_reg /\ entities_of_device(id) = {}
      [] type = "entity" ->
            /\ scenes_with_entity(id) = {}
            /\ groups_with_entity(id) = {}
            /\ id \notin DOMAIN entity_reg
      [] type = "group" -> entities_in_group(id) = {}
      [] type = "scene" -> entities_in_scene(id) = {}
      [] type = "config_entry" ->
            devices_for_config_entry(id) = {} /\ entities_for_config_entry(id) = {}
      [] OTHER -> TRUE

\* C7: a search for an id that no lookup resolves returns the empty mapping.
C7_DanglingEmpty ==
    (Finished /\ dangling(item_type, item_id))
    => (pc = "returned" /\ ret = EmptyDict)

\* C7 holds of every entry but an entity whose domain is scene, automation,
\* script or group.
C7_DanglingEmptyOtherDomains ==
    (/\ Finished
     /\ dangling(item_type, item_id)
     /\ ~(item_type = "entity" /\ split_entity_id(item_id)[1] \in EntityDomains))
    => (pc = "returned" /\ ret = EmptyDict)

\* C8 as stated: a search for a scene returns every entity of the scene
\* under entity, and the scene neither under scene nor under entity.
C8_SceneEntryAnyMember ==
    (Finished /\ item_type = "scene")
    => /\ pc = "returned"
       /\ entities_in_scene(item_id) \subseteq Get(ret, "entity")
       /\ item_id \notin Get(ret, "scene")
       /\ item_id \notin Get(ret, "entity")

\* C8, amended: a search for a scene returns every entity of the scene that
\* is outside the scene, automation, script and group domains under entity,
\* and the scene neither under scene nor under entity.
C8_SceneEntry ==
    (Finished /\ item_type = "scene")
    => /\ pc = "returned"
       /\ {e \in entities_in_scene(item_id) :
              split_entity_id(e)[1] \notin EntityDomains} \subseteq Get(ret, "entity")
       /\ item_id \notin Get(ret, "scene")
       /\ item_id \notin Get(ret, "entity")

\* A search for a scene of two lights returned both, each of which led back
\* to the scene.
C8_Witness ==
    /\ pc = "returned"
    /\ item_type = "scene"
    /\ \E e1, e2 \in entities_in_scene(item_id) :
          /\ e1 # e2
          /\ split_entity_id(e1)[1] \notin EntityDomains
          /\ split_entity_id(e2)[1] \notin EntityDomains
          /\ item_id \in scenes_with_entity(e1)
          /\ {e1, e2} \subseteq Get(ret, "entity")

\* C9: a search for a registered device returns its area, its config
\* entries and its entities outside the scene, automation, script and group
\* domains, and not the device.
C9_DeviceEntry ==
    (Finished /\ item_type = "device" /\ item_id \in DOMAIN device_reg)
    => /\ pc = "returned"
       /\ device_reg[item_id].area_id # None
             => device_reg[item_id].area_id \in Get(ret, "area")
       /\ device_reg[item_id].config_entries \subseteq Get(ret, "config_entry")
       /\ {e \in entities_of_device(item_id) :
              split_entity_id(e)[1] \notin EntityDomains} \subseteq Get(ret, "entity")
       /\ item_id \notin Get(ret, "device")

\* A search returned for a device with an area, a config entry and a light.
C9_Witness ==
    /\ pc = "returned"
    /\ item_type = "device"
    /\ item_id \in DOMAIN device_reg
    /\ device_reg[item_id].area_id \in Get(ret, "area")
    /\ device_reg[item_id].config_entries # {}
    /\ \E e \in entities_of_device(item_id) :
          /\ split_entity_id(e)[1] \notin EntityDomains
          /\ e \in Get(ret, "entity")

\* C10: whatever the order of the pops, the search ends as it does when it
\* pops in the fixed order of drain: the same mapping, or the same error.
C10_OrderIndependent ==
    Finished =>
        [raised |-> pc = "raised", ret |-> ret] = search_outcome(item_type, item_id)

\* A search for a device returned two entities, which were pending together
\* and could be popped in either order.
C10_Witness ==
    /\ pc = "returned"
    /\ item_type = "device"
    /\ Cardinality(Get(ret, "entity")) >= 2

\* The pairs the rule of a type adds for an id (the _resolve_* methods, as
\* sets of pairs).
adjacent(type, id) ==
    CASE type = "area" -> {<<"device", d>> : d \in devices_in_area(id)}
      [] type = "device" ->
            (IF id \in DOMAIN device_reg
             THEN (IF device_reg[id].area_id # None
                   THEN {<<"area", device_reg[id].area_id>>} ELSE {})
                  \cup {<<"config_entry", c>> : c \in device_reg[id].config_entries}
             ELSE {})
            \cup {<<"entity", e>> : e \in entities_of_device(id)}
      [] type = "entity" ->
            {<<"entity", e>> : e \in scenes_with_entity(id) \cup groups_with_entity(id)}
            \cup (IF id \in DOMAIN entity_reg
                  THEN (IF entity_reg[id].device_id # None
                        THEN {<<"device", entity_reg[id].device_id>>} ELSE {})
                       \cup (IF entity_reg[id].config_entry_id # None
                             THEN {<<"config_entry", entity_reg[id].config_entry_id>>}
                             ELSE {})
                  ELSE {})
            \cup (IF split_entity_id(id)[1] \in EntityDomains
                  THEN {<<split_entity_id(id)[1], id>>} ELSE {})
      [] type = "group" -> {<<"entity", e>> : e \in entities_in_group(id)}
      [] type = "scene" -> {<<"entity", e>> : e \in entities_in_scene(id)}
      [] type = "config_entry" ->
            {<<"device", d>> : d \in devices_for_config_entry(id)}
            \cup {<<"entity", e>> : e \in entities_for_config_entry(id)}
      [] OTHER -> {}

\* The pairs reachable from the entry: the rules are applied to the entry and
\* to every reached device and entity, and to no other reached pair.
RECURSIVE reachable(_, _)
reachable(entry, R) ==
    LET expanded == {p \in R : p = entry \/ p[1] \in {"device", "entity"}}
        more == R \cup UNION {adjacent(p[1], p[2]) : p \in expanded}
    IN IF more = R THEN R ELSE reachable(entry, more)

\* The results as a set of pairs.
found(res) == UNION {{<<k, i>> : i \in res[k]} : k \in DOMAIN res}

\* C11: when the worklist has drained, the results are exactly the pairs
\* reachable from the entry.
C11_ExactlyReachable ==
    (pc = "drain" /\ to_resolve = {})
    => found(results) = reachable(<<item_type, item_id>>, {<<item_type, item_id>>})

\* The worklist drained after a search from a device found a scene through
\* an entity, and not the other member of the scene.
C11_Witness ==
    /\ pc = "drain"
    /\ to_resolve = {}
    /\ item_type = "device"
    /\ \E s \in Get(results, "scene") :
          entities_in_scene(s) \ Get(results, "entity") # {}

C13_NoEmptyBucket ==
    pc = "returned" => \A k \in DOMAIN ret : ret[k] # {}

\* A search returned some bucket while another bucket of the results was
\* empty.
C13_Witness ==
    /\ pc = "returned"
    /\ DOMAIN ret # {}
    /\ \E k \in DOMAIN results : results[k] = {}

\* C14: a pair that was popped from the worklist is never in it again.
C14_PoppedNeverPending == visited \cap to_resolve = {}

\* The device of the search was popped, and so was an entity of it, whose
\* rule found the device again.
C14_Witness ==
    /\ item_type = "device"
    /\ <<"device", item_id>> \in visited
    /\ \E p \in visited :
          /\ p[1] = "entity"
          /\ <<"device", item_id>> \in adjacent(p[1], p[2])

\* C15: a pending pair is a device, an entity or the entry of the search.
C15_PendingKinds ==
    \A p \in to_resolve :
        p[1] \in {"device", "entity"} \/ p = <<item_type, item_id>>

\* Pairs are pending while the results hold an area, a config entry, a
\* scene or a group that is not the entry.
C15_Witness ==
    /\ pc = "drain"
    /\ to_resolve # {}
    /\ \E k \in {"area", "config_entry", "scene", "group"} :
          Get(results, k) \ {item_id} # {}

\* The entities a scene or a group holds.
members(type, id) ==
    IF type = "scene" THEN entities_in_scene(id) ELSE entities_in_group(id)

\* C16 as stated: once the entity rule has run for a scene or group id, the
\* id is in the bucket of its kind, the pair of that kind is enqueued (or
\* popped already), and when the worklist has drained its members are in
\* the entity bucket.
C16_EnqueuedAndExpanded ==
    \A e \in EntityIds :
        LET k == split_entity_id(e)[1]
        IN (pc = "drain" /\ k \in {"scene", "group"} /\ <<"entity", e>> \in visited)
           => /\ e \in Get(results, k)
              /\ <<k, e>> \in to_resolve \cup visited
              /\ to_resolve = {} => members(k, e) \subseteq Get(results, "entity")

\* C16, amended: once the entity rule has run for a scene or group id, the
\* id is in the bucket of its kind, and the pair of that kind is neither
\* pending nor popped, so never expanded, unless it is the entry.
C16_RegisteredNotExpanded ==
    \A e \in EntityIds :
        LET k == split_entity_id(e)[1]
        IN (pc = "drain" /\ k \in {"scene", "group"} /\ <<"entity", e>> \in visited)
           => /\ e \in Get(results, k)
              /\ <<k, e>> # <<item_type, item_id>>
                    => <<k, e>> \notin to_resolve \cup visited

\* The worklist drained after the entity rule ran for a scene or group that
\* is not the entry; a member of it is not in the entity bucket.
C16_Witness ==
    /\ pc = "drain"
    /\ to_resolve = {}
    /\ \E e \in EntityIds :
          LET k == split_entity_id(e)[1]
          IN /\ k \in {"scene", "group"}
             /\ <<"entity", e>> \in visited
             /\ <<k, e>> # <<item_type, item_id>>
             /\ e \in Get(results, k)
             /\ members(k, e) \ Get(results, "entity") # {}

\* C17: every step but the clean-up and the removal of the entry leaves each
\* bucket of the results a superset of what it was.
C17_ResultsGrow ==
    [][(pc = "start" \/ (pc = "drain" /\ pc' = "drain") \/ pc = "filter")
       => \A k \in DOMAIN results :
             k \in DOMAIN results' /\ results[k] \subseteq results'[k]]_vars

\* The loop has popped a pair and the results hold three pairs or more.
C17_Witness ==
    /\ pc = "drain"
    /\ visited # {}
    /\ Cardinality(found(results)) >= 3

\* C18: _add_or_resolve for a pair that is in the results changes neither
\* the results nor the worklist, be the pair pending or popped.
C18_Idempotent ==
    \A k \in DOMAIN results : \A i \in results[k] :
        add_or_resolve([results |-> results, to_resolve |-> to_resolve], k, i)
        = [results |-> results, to_resolve |-> to_resolve]

\* The results hold a pending pair and a popped pair.
C18_Witness ==
    /\ pc = "drain"
    /\ \E p \in to_resolve : p[2] \in Get(results, p[1])
    /\ \E p \in visited : p[2] \in Get(results, p[1])

\* C19: the entity bucket of a returned mapping holds no scene, automation,
\* script or group id.
\* Every such id the loop popped as an entity is under its specific kind in
\* the returned mapping, unless it is the entry under that kind.
C19_NoSpecificIdUnderEntity ==
    pc = "returned" =>
        /\ \A e \in Get(ret, "entity") : split_entity_id(e)[1] \notin EntityDomains
        /\ \A e \in EntityIds :
              LET k == split_entity_id(e)[1]
              IN (k \in EntityDomains /\ <<"entity", e>> \in visited
                  /\ <<k, e>> # <<item_type, item_id>>)
                 => e \in Get(ret, k)

\* A search for a scene returned a script or an automation, which it had
\* found as an entity of the scene.
C19_Witness ==
    /\ pc = "returned"
    /\ item_type = "scene"
    /\ (Get(ret, "script") \cup Get(ret, "automation")) \cap entities_in_scene(item_id) # {}

\* C20: the id of every pending pair is in the bucket of its type.
C20_PendingFound ==
    \A p \in to_resolve : p[2] \in Get(results, p[1])

\* Two pairs are pending at once.
C20_Witness ==
    /\ pc = "drain"
    /\ Cardinality(to_resolve) >= 2

====
